---- MODULE Spec2Model ----
(***************************************************************************)
(* A model of the kilo text editor (c-cpp/build-a-text-editor/kilo.c, the  *)
(* version with cursor movement and file loading, lines 260-815): raw-mode *)
(* terminal control, the escape-sequence key decoder, the window-size      *)
(* probe, the buffered renderer and the editor loop.                       *)
(*                                                                         *)
(* Bytes are integers (their ASCII codes), byte strings are sequences of   *)
(* bytes.  The process is a state machine over `pc`; every system call     *)
(* whose result the code inspects draws that result from the environment.  *)
(***************************************************************************)
EXTENDS Integers, Sequences, FiniteSets, TLC

-----------------------------------------------------------------------------
(* Bounds of the model *)

\* Largest window height / width the environment reports.
MaxRows == 3
MaxCols == 2
\* The cursor coordinates are explored within -MaxCoord..MaxCoord.
MaxCoord == 2
\* At most this many realloc failures within one render cycle.
MaxAllocFail == 1
\* empty reads in a row that one call of editorReadKey is followed through
MaxIdle == 2

-----------------------------------------------------------------------------
(* Bytes named in the source *)

ESC == 27
LBRACKET == 91
LETTER_O == 79
TILDE == 126
LETTER_R == 82
SEMICOLON == 59
MINUS == 45
PLUS == 43
DIGIT_0 == 48
DIGIT_9 == 57
LETTER_q == 113
CR == 13
LF == 10

\* #define CTRL_KEY(k) ((k) & 0x1f)
CTRL_KEY(k) == k % 32

\* enum editorKey
ARROW_LEFT == 1000
ARROW_RIGHT == 1001
ARROW_UP == 1002
ARROW_DOWN == 1003
DEL_KEY == 1004
HOME_KEY == 1005
END_KEY == 1006
PAGE_UP == 1007
PAGE_DOWN == 1008

\* Results of read(STDIN_FILENO, &b, 1) other than a byte: 0 bytes within the
\* VTIME timeout, -1 with errno EAGAIN, -1 with another errno.
RD_TIMEOUT == -1
RD_EAGAIN == -2
RD_ERROR == -3

\* The bytes the keyboard sends in this model: every byte the decoder tests
\* for, the ten digits, Ctrl-q, and two bytes it does not know (E and q).
InputBytes ==
  {ESC, LBRACKET, LETTER_O, TILDE, CTRL_KEY(LETTER_q), LETTER_q}
    \cup (DIGIT_0..DIGIT_9) \cup (65..70) \cup {72}

ReadResults == InputBytes \cup {RD_TIMEOUT, RD_EAGAIN, RD_ERROR}

IsByte(r) == r >= 0

-----------------------------------------------------------------------------
(* Escape sequences written to the terminal *)

SEQ_CLEAR == <<27, 91, 50, 74>>            \* "\x1b[2J"
SEQ_HOME == <<27, 91, 72>>                 \* "\x1b[H"
SEQ_HIDE == <<27, 91, 63, 50, 53, 108>>    \* "\x1b[?25l"
SEQ_SHOW == <<27, 91, 63, 50, 53, 104>>    \* "\x1b[?25h"
SEQ_ERASE_LINE == <<27, 91, 75>>           \* "\x1b[K"
SEQ_CRLF == <<13, 10>>                     \* "\r\n"
SEQ_TILDE == <<126>>                       \* "~"
SEQ_SPACE == <<32>>                        \* " "
SEQ_FAR == <<27, 91, 57, 57, 57, 67, 27, 91, 57, 57, 57, 66>>  \* "\x1b[999C\x1b[999B"
SEQ_DSR == <<27, 91, 54, 110>>             \* "\x1b[6n"

\* "Kilo editor -- version " KILO_VERSION
WELCOME ==
  <<75, 105, 108, 111, 32, 101, 100, 105, 116, 111, 114, 32, 45, 45, 32,
    118, 101, 114, 115, 105, 111, 110, 32, 48, 46, 48, 46, 49>>

-----------------------------------------------------------------------------
(* Generic helpers *)

Take(s, n) == IF n <= 0 THEN <<>> ELSE SubSeq(s, 1, IF n < Len(s) THEN n ELSE Len(s))

\* What "%d" of snprintf prints.
RECURSIVE DigitsOf(_)
DigitsOf(n) ==
  IF n < 10 THEN <<DIGIT_0 + n>>
  ELSE Append(DigitsOf(n \div 10), DIGIT_0 + (n % 10))

FormatInt(n) == IF n < 0 THEN <<MINUS>> \o DigitsOf(0 - n) ELSE DigitsOf(n)

-----------------------------------------------------------------------------
VARIABLES
  pc,            \* where the process is
  term,          \* the attributes the terminal has now
  orig_termios,  \* E.orig_termios
  hook,          \* atexit(disableRawMode) is registered
  inExit,        \* exit() is running the atexit handlers
  status,        \* the exit status passed to exit()
  dieMsg,        \* the argument of the die() in progress
  log,           \* what the process did since it began to terminate
  cx, cy,        \* E.cx, E.cy
  screenrows, screencols,  \* E.screenrows, E.screencols
  numrows, row,  \* E.numrows, E.row
  argFile,       \* argv[1]: the file named on the command line, or NoArg;
                 \* forgotten when the first render cycle starts
  c,             \* editorProcessKeypress: the key editorReadKey returned;
                 \* forgotten when the next render cycle starts
  rd,            \* editorReadKey: results of its reads, from the first byte on
  ab,            \* editorRefreshScreen: the append buffer
  cycle,         \* the abAppend calls of the latest render cycle: how many, the
                 \* lengths passed, the lengths of those that found memory;
                 \* forgotten when editorProcessKeypress is called
  wr,            \* the write() calls on stdout of the latest initEditor or
                 \* editorRefreshScreen; forgotten when the next call begins
  stderr,        \* the messages perror() wrote on the error stream
  idle,          \* editorReadKey: the reads of its first loop that came back
                 \* empty since the loop was entered
  probe,         \* what getWindowSize met and did in initEditor; forgotten
                 \* when main goes on to the file
  \* The shell (lsh), a program of its own:
  lsh_pc,        \* where the shell process is
  args,          \* lsh_loop: the tokens of the line read
  lsh_status,    \* lsh_loop: status, what lsh_execute returned
  cwd,           \* the working directory of the shell process
  lsh_out,       \* what the shell printed since its latest prompt
  lsh_n,         \* how many times lsh_execute has returned
  lsh_code       \* the exit status of the shell process once it has ended

vars == <<pc, term, orig_termios, hook, inExit, status, dieMsg, log, cx, cy,
          screenrows, screencols, numrows, row, argFile, c, rd, ab, cycle, wr,
          stderr, idle, probe,
          lsh_pc, args, lsh_status, cwd, lsh_out, lsh_n, lsh_code>>

termVars == <<term, orig_termios, hook, inExit>>
editorVars == <<cx, cy, screenrows, screencols, numrows, row>>
keyVars == <<c, rd, idle>>
renderVars == <<ab, cycle, wr, probe>>
lshVars == <<lsh_pc, args, lsh_status, cwd, lsh_out, lsh_n, lsh_code>>

-----------------------------------------------------------------------------
(* The terminal *)

\* The attributes the terminal has when the editor is launched.
Cooked ==
  [brkint |-> TRUE, icrnl |-> TRUE, inpck |-> TRUE, istrip |-> TRUE,
   ixon |-> TRUE, opost |-> TRUE, cs8 |-> FALSE, echo |-> TRUE,
   icanon |-> TRUE, iexten |-> TRUE, isig |-> TRUE, vmin |-> 1, vtime |-> 0]

\* E is a global: its orig_termios is zero until tcgetattr fills it.
ZeroTermios ==
  [brkint |-> FALSE, icrnl |-> FALSE, inpck |-> FALSE, istrip |-> FALSE,
   ixon |-> FALSE, opost |-> FALSE, cs8 |-> FALSE, echo |-> FALSE,
   icanon |-> FALSE, iexten |-> FALSE, isig |-> FALSE, vmin |-> 0, vtime |-> 0]

\* The attributes enableRawMode derives from the snapshot.
RawOf(t) ==
  [t EXCEPT !.brkint = FALSE, !.icrnl = FALSE, !.inpck = FALSE,
            !.istrip = FALSE, !.ixon = FALSE, !.opost = FALSE, !.cs8 = TRUE,
            !.echo = FALSE, !.icanon = FALSE, !.iexten = FALSE,
            !.isig = FALSE, !.vmin = 0, !.vtime = 1]

-----------------------------------------------------------------------------
(* The command line *)

\* First lines of the files of the model: getline's result is the bytes up to
\* and including the first newline (<<>>: the file is empty).
FileLines ==
  { <<>>, <<LF>>, <<104>>, <<CR, LF>>, <<104, 105, LF>>, <<104, 105, CR, LF>>,
    <<104, 105, 106, LF>> }

\* The shell process when main calls lsh_loop. status is not initialised
\* there; lsh_loop assigns it before reading it.
LshInit ==
  /\ lsh_pc = "prompt"
  /\ args = <<>>
  /\ lsh_status = 1
  /\ cwd = "/"
  /\ lsh_out = <<>>
  /\ lsh_n = 0
  /\ lsh_code = 0

NoArg == [given |-> FALSE, openable |-> FALSE, line |-> <<>>]

Args ==
  {NoArg, [given |-> TRUE, openable |-> FALSE, line |-> <<>>]}
    \cup {[given |-> TRUE, openable |-> TRUE, line |-> l] : l \in FileLines}

NoRow == [size |-> 0, chars |-> <<>>]
ABUF_INIT == [b |-> <<>>, len |-> 0]

\* No render cycle in progress: no abAppend call made.
NoCycle == [calls |-> 0, passed |-> 0, stored |-> 0]

\* initEditor has not run, or main has gone on to the file.
NoProbe ==
  [called |-> FALSE, io |-> [ret |-> 0, ws_row |-> 0, ws_col |-> 0],
   moved |-> FALSE, sent |-> FALSE, reply |-> <<>>, ret |-> 0, reads |-> 0]

Init ==
  /\ pc = "enableRawMode"
  /\ term = Cooked
  /\ orig_termios = ZeroTermios
  /\ hook = FALSE
  /\ inExit = FALSE
  /\ status = 0
  /\ dieMsg = ""
  /\ log = <<>>
  /\ cx = 0 /\ cy = 0
  /\ screenrows = 0 /\ screencols = 0
  /\ numrows = 0 /\ row = NoRow
  /\ argFile \in Args
  /\ c = 0
  /\ rd = <<>>
  /\ ab = ABUF_INIT
  /\ cycle = NoCycle
  /\ wr = <<>>
  /\ stderr = <<>>
  /\ idle = 0
  /\ probe = NoProbe
  /\ LshInit

-----------------------------------------------------------------------------
(* die, exit and the exit hook *)

\* Calling die(s): control moves into die and never comes back.
die(s) ==
  /\ pc' = "die_clear"
  /\ dieMsg' = s

\* write(STDOUT_FILENO, "\x1b[2J", 4)
DieClearScreen ==
  /\ pc = "die_clear"
  /\ pc' = "die_home"
  /\ log' = Append(log, "clear")
  /\ UNCHANGED <<termVars, status, stderr, dieMsg, editorVars, argFile, keyVars, renderVars>>
  /\ UNCHANGED lshVars

\* DieHome with the write of the home sequence left out.
DieHome_Omitted ==
  /\ pc = "die_home"
  /\ pc' = "die_perror"
  /\ UNCHANGED <<termVars, status, stderr, dieMsg, log, editorVars, argFile, keyVars,
                 renderVars>>
  /\ UNCHANGED lshVars

\* write(STDOUT_FILENO, "\x1b[H", 3)
DieHome ==
  /\ pc = "die_home"
  /\ pc' = "die_perror"
  /\ log' = Append(log, "home")
  /\ UNCHANGED <<termVars, status, stderr, dieMsg, editorVars, argFile, keyVars, renderVars>>
  /\ UNCHANGED lshVars

\* perror(s); exit(1)
DiePerror ==
  /\ pc = "die_perror"
  /\ pc' = "exit"
  /\ log' = Append(log, "perror")
  /\ stderr' = Append(stderr, dieMsg)
  /\ status' = 1
  /\ UNCHANGED <<termVars, dieMsg, editorVars, argFile, keyVars, renderVars>>
  /\ UNCHANGED lshVars

\* What a build does when exit() is called by a function that exit() itself
\* is running (undefined behaviour): it ends the process with the new status,
\* or the process ends abnormally.
NestedExitOutcomes == {"done", "aborted"}

\* Exit as _exit() would have it: no registered function is run.
Exit_SkipsHook ==
  /\ pc = "exit"
  /\ pc' = "done"
  /\ UNCHANGED <<termVars, status, stderr, dieMsg, log, editorVars, argFile, keyVars,
                 renderVars>>
  /\ UNCHANGED lshVars

\* Exit running the registered function again when exit() is called from it.
Exit_RunsHookAgain ==
  /\ pc = "exit"
  /\ IF hook
       THEN /\ pc' = "disableRawMode"
            /\ inExit' = TRUE
       ELSE /\ pc' = "done"
            /\ UNCHANGED inExit
  /\ UNCHANGED <<term, orig_termios, hook, status, stderr, dieMsg, log, editorVars,
                 argFile, keyVars, renderVars>>
  /\ UNCHANGED lshVars

\* exit(status): run the function registered with atexit, then terminate.
Exit ==
  /\ pc = "exit"
  /\ IF inExit
       THEN /\ pc' \in NestedExitOutcomes
            /\ UNCHANGED inExit
       ELSE IF hook
         THEN /\ pc' = "disableRawMode"
              /\ inExit' = TRUE
         ELSE /\ pc' = "done"
              /\ UNCHANGED inExit
  /\ UNCHANGED <<term, orig_termios, hook, status, stderr, dieMsg, log, editorVars,
                 argFile, keyVars, renderVars>>
  /\ UNCHANGED lshVars

\* disableRawMode, run by exit(): tcsetattr(STDIN_FILENO, TCSAFLUSH, &E.orig_termios)
disableRawMode ==
  /\ pc = "disableRawMode"
  /\ \E ok \in BOOLEAN :
       IF ok
         THEN /\ term' = orig_termios
              /\ log' = Append(log, "restore")
              /\ pc' = "done"
              /\ UNCHANGED dieMsg
         ELSE /\ log' = Append(log, "restore_failed")
              /\ die("tcsetattr")
              /\ UNCHANGED term
  /\ UNCHANGED <<orig_termios, hook, inExit, status, stderr, editorVars, argFile,
                 keyVars, renderVars>>
  /\ UNCHANGED lshVars

\* enableRawMode: snapshot the attributes, register the hook, install raw mode.
enableRawMode ==
  /\ pc = "enableRawMode"
  /\ \E got \in BOOLEAN, set \in BOOLEAN :
       IF ~got
         THEN /\ die("tcgetattr")
              /\ UNCHANGED <<term, orig_termios, hook>>
         ELSE /\ orig_termios' = term
              /\ hook' = TRUE
              /\ IF set
                   THEN /\ term' = RawOf(term)
                        /\ pc' = "initEditor"
                        /\ UNCHANGED dieMsg
                   ELSE /\ die("tcsetattr")
                        /\ UNCHANGED term
  /\ UNCHANGED <<inExit, status, stderr, log, editorVars, argFile, keyVars, renderVars>>
  /\ UNCHANGED lshVars

-----------------------------------------------------------------------------
(* The window-size probe *)

\* sscanf: white space skipped before a %d conversion.
IsSpace(b) == b \in {32, 9, 10, 11, 12, 13}
IsDigit(b) == b >= DIGIT_0 /\ b <= DIGIT_9

RECURSIVE SkipSpace(_, _)
SkipSpace(s, p) ==
  IF p <= Len(s) /\ IsSpace(s[p]) THEN SkipSpace(s, p + 1) ELSE p

RECURSIVE ScanDigits(_, _, _)
ScanDigits(s, p, acc) ==
  IF p <= Len(s) /\ IsDigit(s[p])
    THEN ScanDigits(s, p + 1, acc * 10 + (s[p] - DIGIT_0))
    ELSE [val |-> acc, next |-> p]

\* One "%d" conversion of sscanf on s from position p.
ScanInt(s, p) ==
  LET q == SkipSpace(s, p)
      signed == q <= Len(s) /\ s[q] \in {MINUS, PLUS}
      d == IF signed THEN q + 1 ELSE q
      r == ScanDigits(s, d, 0)
  IN  IF d <= Len(s) /\ IsDigit(s[d])
        THEN [ok |-> TRUE,
              val |-> IF signed /\ s[q] = MINUS THEN 0 - r.val ELSE r.val,
              next |-> r.next]
        ELSE [ok |-> FALSE, val |-> 0, next |-> p]

\* sscanf(s, "%d;%d", rows, cols): the number of conversions assigned and
\* their values.
ScanRowsCols(s) ==
  LET a == ScanInt(s, 1)
      semi == a.ok /\ a.next <= Len(s) /\ s[a.next] = SEMICOLON
      b == IF semi THEN ScanInt(s, a.next + 1) ELSE [ok |-> FALSE, val |-> 0, next |-> 0]
  IN  [n |-> IF ~a.ok THEN 0 ELSE IF b.ok THEN 2 ELSE 1,
       rows |-> a.val, cols |-> b.val]

\* sizeof(buf) - 1 of getCursorPosition
BUF_MAX == 31

\* The read loop of getCursorPosition: the bytes stored in buf before the
\* terminating NUL, given the bytes the terminal sends (a read past them
\* returns no byte).
RECURSIVE ReadReply(_, _)
ReadReply(reply, i) ==
  IF i < BUF_MAX /\ i < Len(reply) /\ reply[i + 1] # LETTER_R
    THEN ReadReply(reply, i + 1)
    ELSE i

\* The number of read() calls that loop makes.
ReplyReads(reply) ==
  LET i == ReadReply(reply, 0) IN IF i < BUF_MAX THEN i + 1 ELSE i

\* buf[k] of a NUL-terminated buffer holding b.
BufAt(b, k) == IF k < Len(b) THEN b[k + 1] ELSE 0

\* getCursorPosition: sent says whether write() of the query returned 4;
\* reply is what the terminal answers.  rows/cols are the values stored
\* through the pointers, old ones where nothing was stored.
getCursorPosition_ColsFirst(sent, reply, oldrows, oldcols) ==
  IF ~sent
    THEN [ret |-> -1, rows |-> oldrows, cols |-> oldcols,
          writes |-> <<SEQ_DSR>>, reads |-> 0]
    ELSE
      LET buf == Take(reply, ReadReply(reply, 0))
          sc == ScanRowsCols(SubSeq(buf, 3, Len(buf)))
          prefix == BufAt(buf, 0) = ESC /\ BufAt(buf, 1) = LBRACKET
      IN  [ret |-> IF prefix /\ sc.n = 2 THEN 0 ELSE -1,
           cols |-> IF prefix /\ sc.n >= 1 THEN sc.rows ELSE oldcols,
           rows |-> IF prefix /\ sc.n = 2 THEN sc.cols ELSE oldrows,
           writes |-> <<SEQ_DSR>>, reads |-> ReplyReads(reply)]

getCursorPosition(sent, reply, oldrows, oldcols) ==
  IF ~sent
    THEN [ret |-> -1, rows |-> oldrows, cols |-> oldcols,
          writes |-> <<SEQ_DSR>>, reads |-> 0]
    ELSE
      LET buf == Take(reply, ReadReply(reply, 0))
          sc == ScanRowsCols(SubSeq(buf, 3, Len(buf)))
          prefix == BufAt(buf, 0) = ESC /\ BufAt(buf, 1) = LBRACKET
      IN  [ret |-> IF prefix /\ sc.n = 2 THEN 0 ELSE -1,
           rows |-> IF prefix /\ sc.n >= 1 THEN sc.rows ELSE oldrows,
           cols |-> IF prefix /\ sc.n = 2 THEN sc.cols ELSE oldcols,
           writes |-> <<SEQ_DSR>>, reads |-> ReplyReads(reply)]

\* getWindowSize: io is the result of ioctl(TIOCGWINSZ), moved says whether
\* write() of the far-corner sequence returned 12.
getWindowSize(io, moved, sent, reply, oldrows, oldcols) ==
  IF io.ret = -1 \/ io.ws_col = 0
    THEN IF ~moved
           THEN [ret |-> -1, rows |-> oldrows, cols |-> oldcols,
                 writes |-> <<SEQ_FAR>>, reads |-> 0]
           ELSE LET r == getCursorPosition(sent, reply, oldrows, oldcols)
                IN  [r EXCEPT !.writes = <<SEQ_FAR>> \o r.writes]
    ELSE [ret |-> 0, rows |-> io.ws_row, cols |-> io.ws_col,
          writes |-> <<>>, reads |-> 0]

\* What ioctl(TIOCGWINSZ) can report: failure, or any size up to the bounds
\* (ws_row and ws_col are unsigned short).
IoctlResults ==
  {[ret |-> -1, ws_row |-> 0, ws_col |-> 0]}
    \cup {[ret |-> 0, ws_row |-> r, ws_col |-> k] : r \in 0..MaxRows, k \in 0..MaxCols}

\* The cursor position report of a terminal whose cursor is at row r, column k.
CursorReport(r, k) ==
  <<ESC, LBRACKET>> \o FormatInt(r) \o <<SEMICOLON>> \o FormatInt(k) \o <<LETTER_R>>

\* What arrives on stdin after the query: a report, a report cut short, or
\* something that is not a report.
Replies ==
  {CursorReport(r, k) : r \in 1..MaxRows, k \in 1..MaxCols}
    \cup { <<>>, <<ESC>>, <<ESC, LBRACKET>>, <<ESC, LBRACKET, 49>>,
           <<ESC, LBRACKET, 49, SEMICOLON>>,
           <<ESC, LBRACKET, 49, SEMICOLON, 50>>,
           <<ESC, LBRACKET, SEMICOLON, 50, LETTER_R>>,
           <<LBRACKET, 49, SEMICOLON, 50, LETTER_R>>,
           <<ESC, LETTER_O, 49, SEMICOLON, 50, LETTER_R>>,
           <<LETTER_R>> }

\* initEditor on a terminal whose ioctl result is in ios and whose answer
\* to the query is in replies.
initEditorOn(ios, replies) ==
  /\ pc = "initEditor"
  /\ cx' = 0
  /\ cy' = 0
  /\ numrows' = 0
  /\ \E io \in ios, moved \in BOOLEAN, sent \in BOOLEAN, reply \in replies :
       LET g == getWindowSize(io, moved, sent, reply, screenrows, screencols)
       IN  /\ screenrows' = g.rows
           /\ screencols' = g.cols
           /\ wr' = g.writes
           /\ probe' = [called |-> TRUE, io |-> io, moved |-> moved, sent |-> sent,
                        reply |-> reply, ret |-> g.ret, reads |-> g.reads]
           /\ IF g.ret = -1
                THEN die("getWindowSize")
                ELSE pc' = "editorOpen" /\ UNCHANGED dieMsg
  /\ UNCHANGED <<termVars, status, stderr, log, row, argFile, keyVars, ab, cycle>>
  /\ UNCHANGED lshVars

\* initEditor
initEditor == initEditorOn(IoctlResults, Replies)

\* Window sizes of real terminals, of one to three digits.
WideRows == {1, 24, 120}
WideCols == {1, 80, 132}

WideIoctlResults ==
  {[ret |-> -1, ws_row |-> 0, ws_col |-> 0]}
    \cup {[ret |-> 0, ws_row |-> r, ws_col |-> k] :
            r \in {0} \cup WideRows, k \in {0} \cup WideCols}

WideReplies == {CursorReport(r, k) : r \in WideRows, k \in WideCols} \cup Replies

\* initEditor on a terminal of any of those sizes.
initEditorWide == initEditorOn(WideIoctlResults, WideReplies)

\* The state in which main calls initEditor: enableRawMode has returned.
InitProbe ==
  /\ pc = "initEditor"
  /\ term = RawOf(Cooked)
  /\ orig_termios = Cooked
  /\ hook = TRUE
  /\ inExit = FALSE
  /\ status = 0
  /\ dieMsg = ""
  /\ log = <<>>
  /\ cx = 0 /\ cy = 0
  /\ screenrows = 0 /\ screencols = 0
  /\ numrows = 0 /\ row = NoRow
  /\ argFile = NoArg
  /\ c = 0
  /\ rd = <<>>
  /\ ab = ABUF_INIT
  /\ cycle = NoCycle
  /\ wr = <<>>
  /\ stderr = <<>>
  /\ idle = 0
  /\ probe = NoProbe
  /\ LshInit

NextProbe == initEditorWide

\* initEditor alone, on the wide range of terminals.
SpecProbe == InitProbe /\ [][NextProbe]_vars

-----------------------------------------------------------------------------
(* Loading the file *)

\* The while loop of editorOpen: linelen after the line endings are dropped.
RECURSIVE StripLen(_, _)
StripLen(line, linelen) ==
  IF linelen > 0 /\ line[linelen] \in {LF, CR}
    THEN StripLen(line, linelen - 1)
    ELSE linelen

\* getline: the length of the line read, -1 at end of file.
GetlineLen(line) == IF line = <<>> THEN -1 ELSE Len(line)

\* main: argc < 2, editorOpen is not called.
mainNoFile ==
  /\ pc = "editorOpen"
  /\ ~argFile.given
  /\ pc' = "refresh"
  /\ wr' = <<>>
  /\ probe' = NoProbe
  /\ UNCHANGED <<termVars, status, stderr, dieMsg, log, editorVars, argFile, keyVars,
                 ab, cycle>>
  /\ UNCHANGED lshVars

\* editorOpen returning when fopen fails, the document left empty.
editorOpen_SilentFallback ==
  /\ pc = "editorOpen"
  /\ argFile.given
  /\ ~argFile.openable
  /\ wr' = <<>>
  /\ probe' = NoProbe
  /\ pc' = "refresh"
  /\ UNCHANGED <<termVars, status, stderr, dieMsg, log, editorVars, argFile, keyVars,
                 ab, cycle>>
  /\ UNCHANGED lshVars

\* editorOpen(argv[1])
editorOpen ==
  /\ pc = "editorOpen"
  /\ argFile.given
  /\ wr' = <<>>
  /\ probe' = NoProbe
  /\ IF ~argFile.openable
       THEN /\ die("fopen")
            /\ UNCHANGED <<numrows, row>>
       ELSE LET linelen == GetlineLen(argFile.line)
                n == StripLen(argFile.line, linelen)
            IN  /\ UNCHANGED dieMsg
                /\ IF linelen = 1
                     THEN /\ pc' = "refresh"
                          /\ UNCHANGED <<numrows, row>>
                     ELSE IF n < 0
                       \* memcpy(E.row.chars, line, (size_t)-1)
                       THEN /\ pc' = "crashed"
                            /\ row' = [size |-> n, chars |-> <<>>]
                            /\ UNCHANGED numrows
                       ELSE /\ pc' = "refresh"
                            /\ row' = [size |-> n, chars |-> Take(argFile.line, n)]
                            /\ numrows' = 1
  /\ UNCHANGED <<termVars, status, stderr, log, cx, cy, screenrows, screencols, argFile,
                 keyVars, ab, cycle>>
  /\ UNCHANGED lshVars

-----------------------------------------------------------------------------
(* The append buffer and the renderer *)

\* abAppend without its "ab->len += len".
abAppend_KeepsLen(a, s, len, got) ==
  IF ~got THEN a
  ELSE [b |-> a.b \o Take(s, len), len |-> a.len]

\* abAppend(ab, s, len); got says whether realloc returned memory.
abAppend(a, s, len, got) ==
  IF ~got THEN a
  ELSE [b |-> a.b \o Take(s, len), len |-> a.len + len]

Frag(s, len) == [s |-> s, len |-> len]

RECURSIVE Spaces(_)
Spaces(n) == IF n <= 0 THEN <<>> ELSE <<Frag(SEQ_SPACE, 1)>> \o Spaces(n - 1)

\* The abAppend calls that draw the welcome line.
WelcomeCalls ==
  LET n == Len(WELCOME)
      welcomelen == IF n > screencols THEN screencols ELSE n
      padding == (screencols - welcomelen) \div 2
  IN  (IF padding # 0 THEN <<Frag(SEQ_TILDE, 1)>> \o Spaces(padding - 1) ELSE <<>>)
        \o <<Frag(WELCOME, welcomelen)>>

\* DrawRowCalls with the line break appended after the last row as well.
DrawRowCalls_BreakAfterLast(i) ==
  (IF i >= numrows
     THEN IF i = screenrows \div 3 THEN WelcomeCalls ELSE <<Frag(SEQ_TILDE, 1)>>
     ELSE <<Frag(row.chars, IF row.size > screencols THEN screencols ELSE row.size)>>)
    \o <<Frag(SEQ_ERASE_LINE, 3)>>
    \o <<Frag(SEQ_CRLF, 2)>>

\* The abAppend calls of one iteration of the loop of editorDrawRows.
DrawRowCalls(i) ==
  (IF i >= numrows
     THEN IF i = screenrows \div 3 THEN WelcomeCalls ELSE <<Frag(SEQ_TILDE, 1)>>
     ELSE <<Frag(row.chars, IF row.size > screencols THEN screencols ELSE row.size)>>)
    \o <<Frag(SEQ_ERASE_LINE, 3)>>
    \o (IF i < screenrows - 1 THEN <<Frag(SEQ_CRLF, 2)>> ELSE <<>>)

\* The abAppend calls of editorDrawRows, from row i on.
RECURSIVE editorDrawRows(_)
editorDrawRows(i) ==
  IF i < screenrows THEN DrawRowCalls(i) \o editorDrawRows(i + 1) ELSE <<>>

\* CursorSeq with the column printed before the row.
CursorSeq_ColumnFirst ==
  <<ESC, LBRACKET>> \o FormatInt(cx + 1) \o <<SEMICOLON>> \o FormatInt(cy + 1) \o <<72>>

\* snprintf(buf, sizeof(buf), "\x1b[%d;%dH", E.cy + 1, E.cx + 1)
CursorSeq ==
  <<ESC, LBRACKET>> \o FormatInt(cy + 1) \o <<SEMICOLON>> \o FormatInt(cx + 1) \o <<72>>

\* The abAppend calls of editorRefreshScreen, in order.
RefreshCalls ==
  <<Frag(SEQ_HIDE, 6), Frag(SEQ_HOME, 3)>>
    \o editorDrawRows(0)
    \o <<Frag(CursorSeq, Len(CursorSeq)), Frag(SEQ_SHOW, 6)>>

\* The buffer after the calls k.. of calls, those in fails finding no memory.
RECURSIVE AppendAll(_, _, _, _)
AppendAll(a, calls, k, fails) ==
  IF k > Len(calls) THEN a
  ELSE AppendAll(abAppend(a, calls[k].s, calls[k].len, k \notin fails),
                 calls, k + 1, fails)

RECURSIVE SumLen(_, _, _)
SumLen(calls, k, skip) ==
  IF k > Len(calls) THEN 0
  ELSE (IF k \in skip THEN 0 ELSE calls[k].len) + SumLen(calls, k + 1, skip)

\* The calls of a render cycle that may find no memory.
RECURSIVE FailSetsUpTo(_, _)
FailSetsUpTo(n, k) ==
  IF k = 0 THEN {{}}
  ELSE LET fewer == FailSetsUpTo(n, k - 1)
       IN  fewer \cup {S \cup {i} : S \in fewer, i \in 1..n}

FailSets(n) == FailSetsUpTo(n, MaxAllocFail)

\* editorRefreshScreen up to its write: a fresh buffer, then every abAppend.
editorRefreshScreen ==
  /\ pc = "refresh"
  /\ \E calls \in {RefreshCalls} : \E fails \in FailSets(Len(calls)) :
       /\ ab' = AppendAll(ABUF_INIT, calls, 1, fails)
       /\ cycle' = [calls |-> Len(calls),
                     passed |-> SumLen(calls, 1, {}),
                     stored |-> SumLen(calls, 1, fails)]
  /\ wr' = <<>>
  /\ c' = 0
  /\ argFile' = NoArg
  /\ pc' = "flush"
  /\ UNCHANGED <<termVars, status, stderr, dieMsg, log, editorVars, rd, idle, probe>>
  /\ UNCHANGED lshVars

\* write(STDOUT_FILENO, ab.b, ab.len); abFree(&ab)
editorRefreshScreenFlush ==
  /\ pc = "flush"
  /\ wr' = Append(wr, Take(ab.b, ab.len))
  /\ ab' = ABUF_INIT
  /\ pc' = "processKeypress"
  /\ UNCHANGED <<termVars, status, stderr, dieMsg, log, editorVars, argFile, keyVars,
                 cycle, probe>>
  /\ UNCHANGED lshVars

-----------------------------------------------------------------------------
(* The key decoder *)

\* TildeKey with the cases '5' and '6' exchanged.
TildeKey_Swapped(d) ==
  CASE d = 49 -> HOME_KEY
    [] d = 48 -> DEL_KEY
    [] d = 52 -> END_KEY
    [] d = 53 -> PAGE_DOWN
    [] d = 54 -> PAGE_UP
    [] d = 55 -> HOME_KEY
    [] d = 56 -> END_KEY
    [] OTHER -> ESC

\* switch (seq[1]) after ESC [ digit ~
TildeKey(d) ==
  CASE d = 49 -> HOME_KEY
    [] d = 48 -> DEL_KEY
    [] d = 52 -> END_KEY
    [] d = 53 -> PAGE_UP
    [] d = 54 -> PAGE_DOWN
    [] d = 55 -> HOME_KEY
    [] d = 56 -> END_KEY
    [] OTHER -> ESC

\* BracketKey with the cases 'C' and 'D' exchanged.
BracketKey_Swapped(b) ==
  CASE b = 65 -> ARROW_UP
    [] b = 66 -> ARROW_DOWN
    [] b = 67 -> ARROW_LEFT
    [] b = 68 -> ARROW_RIGHT
    [] b = 72 -> HOME_KEY
    [] b = 70 -> END_KEY
    [] OTHER -> ESC

\* switch (seq[1]) after ESC [
BracketKey(b) ==
  CASE b = 65 -> ARROW_UP
    [] b = 66 -> ARROW_DOWN
    [] b = 67 -> ARROW_RIGHT
    [] b = 68 -> ARROW_LEFT
    [] b = 72 -> HOME_KEY
    [] b = 70 -> END_KEY
    [] OTHER -> ESC

\* OKey returning the byte itself where it knows no key.
OKey_ReturnsByte(b) ==
  CASE b = 72 -> HOME_KEY
    [] b = 70 -> END_KEY
    [] OTHER -> b

\* switch (seq[1]) after ESC O
OKey(b) ==
  CASE b = 72 -> HOME_KEY
    [] b = 70 -> END_KEY
    [] OTHER -> ESC

\* editorReadKey returns k to editorProcessKeypress.
ReturnKey(k) ==
  /\ c' = k
  /\ pc' = "switch"
  /\ UNCHANGED dieMsg

\* A read() can come back empty only once VMIN is 0.
CanRead(r) == r = RD_TIMEOUT => term.vmin = 0

\* main calls editorProcessKeypress, which calls editorReadKey.
editorProcessKeypressCall ==
  /\ pc = "processKeypress"
  /\ pc' = "readkey"
  /\ wr' = <<>>
  /\ cycle' = NoCycle
  /\ UNCHANGED <<termVars, status, stderr, dieMsg, log, editorVars, argFile, keyVars,
                 ab, probe>>
  /\ UNCHANGED lshVars

\* editorReadKey giving up on an empty read: it returns 0 as the key.
editorReadKey_ReturnsWhenIdle ==
  /\ pc = "readkey"
  /\ \E r \in ReadResults :
       /\ CanRead(r)
       /\ IF IsByte(r)
            THEN /\ rd' = <<r>>
                 /\ idle' = 0
                 /\ IF r = ESC
                      THEN pc' = "seq0" /\ UNCHANGED <<c, dieMsg>>
                      ELSE ReturnKey(r)
            ELSE IF r = RD_ERROR
              THEN die("read") /\ idle' = 0 /\ UNCHANGED <<c, rd>>
              ELSE /\ idle < MaxIdle
                   /\ idle' = idle + 1
                   /\ ReturnKey(0)
                   /\ UNCHANGED rd
  /\ UNCHANGED <<termVars, status, stderr, log, editorVars, argFile, renderVars>>
  /\ UNCHANGED lshVars

\* editorReadKey, the loop waiting for the first byte.
editorReadKey ==
  /\ pc = "readkey"
  /\ \E r \in ReadResults :
       /\ CanRead(r)
       /\ IF IsByte(r)
            THEN /\ rd' = <<r>>
                 /\ idle' = 0
                 /\ IF r = ESC
                      THEN pc' = "seq0" /\ UNCHANGED <<c, dieMsg>>
                      ELSE ReturnKey(r)
            ELSE IF r = RD_ERROR
              THEN die("read") /\ idle' = 0 /\ UNCHANGED <<c, rd>>
              \* nread is 0, or -1 with EAGAIN: the loop reads again
              ELSE /\ idle < MaxIdle
                   /\ idle' = idle + 1
                   /\ UNCHANGED <<pc, c, rd, dieMsg>>
  /\ UNCHANGED <<termVars, status, stderr, log, editorVars, argFile, renderVars>>
  /\ UNCHANGED lshVars

\* editorReadKeySeq0 with the result of read() not tested.
editorReadKeySeq0_Unchecked ==
  /\ pc = "seq0"
  /\ \E r \in ReadResults :
       /\ CanRead(r)
       /\ rd' = Append(rd, r)
       /\ pc' = "seq1"
       /\ UNCHANGED <<c, dieMsg>>
  /\ UNCHANGED <<termVars, status, stderr, log, editorVars, argFile, renderVars, idle>>
  /\ UNCHANGED lshVars

\* read(STDIN_FILENO, &seq[0], 1)
editorReadKeySeq0 ==
  /\ pc = "seq0"
  /\ \E r \in ReadResults :
       /\ CanRead(r)
       /\ rd' = Append(rd, r)
       /\ IF IsByte(r)
            THEN pc' = "seq1" /\ UNCHANGED <<c, dieMsg>>
            ELSE ReturnKey(ESC)
  /\ UNCHANGED <<termVars, status, stderr, log, editorVars, argFile, renderVars, idle>>
  /\ UNCHANGED lshVars

\* editorReadKeySeq1 handing back seq[0] as the key when it opens no
\* sequence.
editorReadKeySeq1_DeliversByte ==
  /\ pc = "seq1"
  /\ \E r \in ReadResults :
       /\ CanRead(r)
       /\ rd' = Append(rd, r)
       /\ IF ~IsByte(r)
            THEN ReturnKey(ESC)
            ELSE IF rd[2] = LBRACKET
              THEN IF r >= DIGIT_0 /\ r <= DIGIT_9
                     THEN pc' = "seq2" /\ UNCHANGED <<c, dieMsg>>
                     ELSE ReturnKey(BracketKey(r))
              ELSE IF rd[2] = LETTER_O
                THEN ReturnKey(OKey(r))
                ELSE ReturnKey(rd[2])
  /\ UNCHANGED <<termVars, status, stderr, log, editorVars, argFile, renderVars, idle>>
  /\ UNCHANGED lshVars

\* read(STDIN_FILENO, &seq[1], 1) and what follows when seq[1] is no digit.
editorReadKeySeq1 ==
  /\ pc = "seq1"
  /\ \E r \in ReadResults :
       /\ CanRead(r)
       /\ rd' = Append(rd, r)
       /\ IF ~IsByte(r)
            THEN ReturnKey(ESC)
            ELSE IF rd[2] = LBRACKET
              THEN IF r >= DIGIT_0 /\ r <= DIGIT_9
                     THEN pc' = "seq2" /\ UNCHANGED <<c, dieMsg>>
                     ELSE ReturnKey(BracketKey(r))
              ELSE IF rd[2] = LETTER_O
                THEN ReturnKey(OKey(r))
                ELSE ReturnKey(ESC)
  /\ UNCHANGED <<termVars, status, stderr, log, editorVars, argFile, renderVars, idle>>
  /\ UNCHANGED lshVars

\* editorReadKeySeq2 treating a read error as the loop for the first byte
\* does.
editorReadKeySeq2_DiesOnError ==
  /\ pc = "seq2"
  /\ \E r \in ReadResults :
       /\ CanRead(r)
       /\ rd' = Append(rd, r)
       /\ IF r = RD_ERROR
            THEN die("read") /\ UNCHANGED c
            ELSE IF ~IsByte(r)
              THEN ReturnKey(ESC)
              ELSE IF r = TILDE THEN ReturnKey(TildeKey(rd[3])) ELSE ReturnKey(ESC)
  /\ UNCHANGED <<termVars, status, stderr, log, editorVars, argFile, renderVars, idle>>
  /\ UNCHANGED lshVars

\* read(STDIN_FILENO, &seq[2], 1) after ESC [ digit
editorReadKeySeq2 ==
  /\ pc = "seq2"
  /\ \E r \in ReadResults :
       /\ CanRead(r)
       /\ rd' = Append(rd, r)
       /\ IF ~IsByte(r)
            THEN ReturnKey(ESC)
            ELSE IF r = TILDE THEN ReturnKey(TildeKey(rd[3])) ELSE ReturnKey(ESC)
  /\ UNCHANGED <<termVars, status, stderr, log, editorVars, argFile, renderVars, idle>>
  /\ UNCHANGED lshVars

-----------------------------------------------------------------------------
(* Applying a key *)

\* editorMoveCursor with ArrowLeft in column 0 wrapping to the end of the row
\* above.
editorMoveCursor_LeftWraps(key, p) ==
  CASE key = ARROW_LEFT ->
         IF p.cx # 0 THEN [p EXCEPT !.cx = p.cx - 1]
         ELSE IF p.cy # 0 THEN [cx |-> screencols - 1, cy |-> p.cy - 1] ELSE p
    [] key = ARROW_RIGHT -> IF p.cx # screencols - 1 THEN [p EXCEPT !.cx = p.cx + 1] ELSE p
    [] key = ARROW_UP -> IF p.cy # 0 THEN [p EXCEPT !.cy = p.cy - 1] ELSE p
    [] key = ARROW_DOWN -> IF p.cy # screenrows - 1 THEN [p EXCEPT !.cy = p.cy + 1] ELSE p
    [] OTHER -> p

\* editorMoveCursor(key) on the cursor p = [cx, cy]
editorMoveCursor(key, p) ==
  CASE key = ARROW_LEFT -> IF p.cx # 0 THEN [p EXCEPT !.cx = p.cx - 1] ELSE p
    [] key = ARROW_RIGHT -> IF p.cx # screencols - 1 THEN [p EXCEPT !.cx = p.cx + 1] ELSE p
    [] key = ARROW_UP -> IF p.cy # 0 THEN [p EXCEPT !.cy = p.cy - 1] ELSE p
    [] key = ARROW_DOWN -> IF p.cy # screenrows - 1 THEN [p EXCEPT !.cy = p.cy + 1] ELSE p
    [] OTHER -> p

\* while (times--) editorMoveCursor(key)
RECURSIVE MoveTimes(_, _, _)
MoveTimes(key, p, times) ==
  IF times = 0 THEN p ELSE MoveTimes(key, editorMoveCursor(key, p), times - 1)

\* KeyEffect with PageUp and PageDown moving one row, like the arrows.
KeyEffect_PageIsOneRow(k, p) ==
  CASE k = HOME_KEY -> [p EXCEPT !.cx = 0]
    [] k = END_KEY -> [p EXCEPT !.cx = screencols - 1]
    [] k \in {PAGE_UP, PAGE_DOWN} ->
         editorMoveCursor(IF k = PAGE_UP THEN ARROW_UP ELSE ARROW_DOWN, p)
    [] k \in {ARROW_UP, ARROW_DOWN, ARROW_LEFT, ARROW_RIGHT} -> editorMoveCursor(k, p)
    [] OTHER -> p

\* The cursor after the switch of editorProcessKeypress on key k.
KeyEffect(k, p) ==
  CASE k = HOME_KEY -> [p EXCEPT !.cx = 0]
    [] k = END_KEY -> [p EXCEPT !.cx = screencols - 1]
    [] k \in {PAGE_UP, PAGE_DOWN} ->
         MoveTimes(IF k = PAGE_UP THEN ARROW_UP ELSE ARROW_DOWN, p, screenrows)
    [] k \in {ARROW_UP, ARROW_DOWN, ARROW_LEFT, ARROW_RIGHT} -> editorMoveCursor(k, p)
    [] OTHER -> p

InRange(v) == v >= 0 - MaxCoord /\ v <= MaxCoord

\* editorProcessKeypress followed by the next editorProcessKeypress, the
\* render of the loop skipped.
editorProcessKeypress_NoRender ==
  /\ pc = "switch"
  /\ IF c = CTRL_KEY(LETTER_q)
       THEN /\ pc' = "quit_clear"
            /\ UNCHANGED <<cx, cy, keyVars>>
       ELSE LET p == KeyEffect(c, [cx |-> cx, cy |-> cy])
            IN  /\ InRange(p.cx) /\ InRange(p.cy)
                /\ cx' = p.cx
                /\ cy' = p.cy
                /\ rd' = <<>>
                /\ UNCHANGED <<c, idle>>
                /\ pc' = "processKeypress"
  /\ UNCHANGED <<termVars, status, stderr, dieMsg, log, screenrows, screencols, numrows,
                 row, argFile, renderVars>>
  /\ UNCHANGED lshVars

\* editorProcessKeypress, the switch on the key read.
editorProcessKeypress ==
  /\ pc = "switch"
  /\ IF c = CTRL_KEY(LETTER_q)
       THEN /\ pc' = "quit_clear"
            /\ UNCHANGED <<cx, cy, keyVars>>
       ELSE LET p == KeyEffect(c, [cx |-> cx, cy |-> cy])
            IN  /\ InRange(p.cx) /\ InRange(p.cy)
                /\ cx' = p.cx
                /\ cy' = p.cy
                /\ rd' = <<>>
                /\ UNCHANGED <<c, idle>>
                /\ pc' = "refresh"
  /\ UNCHANGED <<termVars, status, stderr, dieMsg, log, screenrows, screencols, numrows,
                 row, argFile, renderVars>>
  /\ UNCHANGED lshVars

\* QuitClearScreen with the write of the clear-screen sequence left out.
QuitClearScreen_Omitted ==
  /\ pc = "quit_clear"
  /\ pc' = "quit_home"
  /\ UNCHANGED <<termVars, status, stderr, dieMsg, log, editorVars, argFile, keyVars,
                 renderVars>>
  /\ UNCHANGED lshVars

\* case CTRL_KEY('q'): write(STDOUT_FILENO, "\x1b[2J", 4)
QuitClearScreen ==
  /\ pc = "quit_clear"
  /\ pc' = "quit_home"
  /\ log' = Append(log, "clear")
  /\ UNCHANGED <<termVars, status, stderr, dieMsg, editorVars, argFile, keyVars, renderVars>>
  /\ UNCHANGED lshVars

\* write(STDOUT_FILENO, "\x1b[H", 3); exit(0)
QuitHome ==
  /\ pc = "quit_home"
  /\ pc' = "exit"
  /\ log' = Append(log, "home")
  /\ status' = 0
  /\ UNCHANGED <<termVars, stderr, dieMsg, editorVars, argFile, keyVars, renderVars>>
  /\ UNCHANGED lshVars

-----------------------------------------------------------------------------
Next ==
  \/ enableRawMode
  \/ initEditor
  \/ mainNoFile
  \/ editorOpen
  \/ editorRefreshScreen
  \/ editorRefreshScreenFlush
  \/ editorProcessKeypressCall
  \/ editorReadKey
  \/ editorReadKeySeq0
  \/ editorReadKeySeq1
  \/ editorReadKeySeq2
  \/ editorProcessKeypress
  \/ QuitClearScreen
  \/ QuitHome
  \/ DieClearScreen
  \/ DieHome
  \/ DiePerror
  \/ Exit
  \/ disableRawMode

Spec == Init /\ [][Next]_vars

-----------------------------------------------------------------------------
(* The shell, lsh *)

\* Commands followed in one run of the shell.
MaxCommands == 2

EXIT_SUCCESS == 0
EXIT_FAILURE == 1

kiloVars ==
  <<pc, termVars, status, stderr, dieMsg, log, editorVars, argFile, keyVars, renderVars>>

builtin_str == <<"cd", "help", "exit">>

lsh_num_builtins == Len(builtin_str)

\* What lsh_split_line can return: no token (an empty line, or end of input),
\* builtins with and without arguments, and names that are no builtin.
Commands ==
  { <<>>, <<"cd">>, <<"cd", "dir">>, <<"cd", "/">>, <<"help">>, <<"help", "cd">>,
    <<"exit">>, <<"exit", "now">>, <<"ls">>, <<"ls", "dir">>, <<"exitx">> }

\* lsh_cd returning 0 when chdir fails.
lsh_cd_StopsOnFailure(a, dir, ok) ==
  IF Len(a) < 2
    THEN [ret |-> 1, cwd |-> dir, out |-> <<"lsh: expected argument to \"cd\"\n">>]
    ELSE IF ok THEN [ret |-> 1, cwd |-> a[2], out |-> <<>>]
               ELSE [ret |-> 0, cwd |-> dir, out |-> <<"perror">>]

\* lsh_cd(args) in directory dir; ok says whether chdir succeeds.
lsh_cd(a, dir, ok) ==
  IF Len(a) < 2
    THEN [ret |-> 1, cwd |-> dir, out |-> <<"lsh: expected argument to \"cd\"\n">>]
    ELSE IF ok THEN [ret |-> 1, cwd |-> a[2], out |-> <<>>]
               ELSE [ret |-> 1, cwd |-> dir, out |-> <<"perror">>]

lsh_help(a, dir, ok) == [ret |-> 1, cwd |-> dir, out |-> <<"help">>]

lsh_exit(a, dir, ok) == [ret |-> 0, cwd |-> dir, out |-> <<>>]

\* (*builtin_func[i])(args)
builtin_func(i, a, dir, ok) ==
  CASE i = 1 -> lsh_cd(a, dir, ok)
    [] i = 2 -> lsh_help(a, dir, ok)
    [] i = 3 -> lsh_exit(a, dir, ok)

\* The loop of lsh_execute: the first builtin whose name is args[0], or 0.
RECURSIVE BuiltinIndex(_, _)
BuiltinIndex(a, i) ==
  IF i > lsh_num_builtins THEN 0
  ELSE IF a[1] = builtin_str[i] THEN i ELSE BuiltinIndex(a, i + 1)

\* lsh_execute returns v to lsh_loop.
LshReturn(v) ==
  /\ lsh_status' = v
  /\ lsh_n' = lsh_n + 1
  /\ lsh_pc' = "loop_test"

\* printf("> ")
lsh_prompt ==
  /\ lsh_pc = "prompt"
  /\ lsh_pc' = "read_line"
  /\ lsh_out' = <<"> ">>
  /\ UNCHANGED <<args, lsh_status, cwd, lsh_n, lsh_code, kiloVars>>

\* lsh_read_line and lsh_split_line; got says whether their allocations
\* returned memory.
lsh_read_line ==
  /\ lsh_pc = "read_line"
  /\ \E got \in BOOLEAN, cmd \in Commands :
       IF got
         THEN /\ args' = cmd
              /\ lsh_pc' = "execute"
              /\ UNCHANGED <<lsh_out, lsh_code>>
         ELSE /\ lsh_out' = Append(lsh_out, "lsh: allocation error\n")
              /\ lsh_code' = EXIT_FAILURE
              /\ lsh_pc' = "exited"
              /\ UNCHANGED args
  /\ UNCHANGED <<lsh_status, cwd, lsh_n, kiloVars>>

\* lsh_execute(args), up to the call of lsh_launch
lsh_execute ==
  /\ lsh_pc = "execute"
  /\ IF args = <<>>
       THEN LshReturn(1) /\ UNCHANGED <<cwd, lsh_out>>
       ELSE LET i == BuiltinIndex(args, 1)
            IN  IF i # 0
                  THEN \E ok \in BOOLEAN :
                         LET r == builtin_func(i, args, cwd, ok)
                         IN  /\ LshReturn(r.ret)
                             /\ cwd' = r.cwd
                             /\ lsh_out' = lsh_out \o r.out
                  ELSE /\ lsh_pc' = "fork"
                       /\ UNCHANGED <<lsh_status, lsh_n, cwd, lsh_out>>
  /\ UNCHANGED <<args, lsh_code, kiloVars>>

\* lsh_launch: pid = fork()
lsh_launch_fork ==
  /\ lsh_pc = "fork"
  /\ \E r \in {"child", "parent", "error"} :
       CASE r = "child" ->
              /\ lsh_pc' = "execvp"
              /\ UNCHANGED <<lsh_status, lsh_n, lsh_out>>
         [] r = "parent" ->
              /\ lsh_pc' = "waitpid"
              /\ UNCHANGED <<lsh_status, lsh_n, lsh_out>>
         [] r = "error" ->
              /\ lsh_out' = Append(lsh_out, "perror")
              /\ LshReturn(1)
  /\ UNCHANGED <<args, cwd, lsh_code, kiloVars>>

\* lsh_launch in the child: execvp(args[0], args), and exit(EXIT_FAILURE) when
\* it comes back.
lsh_launch_child ==
  /\ lsh_pc = "execvp"
  /\ \E ok \in BOOLEAN :
       IF ok
         THEN /\ lsh_pc' = "replaced"
              /\ UNCHANGED <<lsh_out, lsh_code>>
         ELSE /\ lsh_out' = Append(lsh_out, "perror")
              /\ lsh_code' = EXIT_FAILURE
              /\ lsh_pc' = "exited"
  /\ UNCHANGED <<args, lsh_status, cwd, lsh_n, kiloVars>>

\* lsh_launch in the parent: the waitpid loop. When waitpid fails, status is
\* read uninitialised: the loop may go on or end.
lsh_launch_wait ==
  /\ lsh_pc = "waitpid"
  /\ \E w \in {"exited", "signaled", "stopped", "failed"} :
       \/ /\ w \in {"exited", "signaled", "failed"}
          /\ LshReturn(1)
       \/ /\ w \in {"stopped", "failed"}
          /\ UNCHANGED <<lsh_pc, lsh_status, lsh_n>>
  /\ UNCHANGED <<args, cwd, lsh_out, lsh_code, kiloVars>>

\* lsh_loop: while (status)
lsh_loop ==
  /\ lsh_pc = "loop_test"
  /\ IF lsh_status # 0
       THEN /\ lsh_n < MaxCommands
            /\ lsh_pc' = "prompt"
       ELSE lsh_pc' = "returned"
  /\ UNCHANGED <<args, lsh_status, cwd, lsh_out, lsh_n, lsh_code, kiloVars>>

\* main: return EXIT_SUCCESS
lsh_main ==
  /\ lsh_pc = "returned"
  /\ lsh_pc' = "exited"
  /\ lsh_code' = EXIT_SUCCESS
  /\ UNCHANGED <<args, lsh_status, cwd, lsh_out, lsh_n, kiloVars>>

\* The shell starts; the editor is another program and is not running.
InitLsh == Init /\ argFile = NoArg

NextLsh ==
  \/ lsh_prompt
  \/ lsh_read_line
  \/ lsh_execute
  \/ lsh_launch_fork
  \/ lsh_launch_child
  \/ lsh_launch_wait
  \/ lsh_loop
  \/ lsh_main

SpecLsh == InitLsh /\ [][NextLsh]_vars

-----------------------------------------------------------------------------
(* Vocabulary of the properties *)

\* The process has ended through exit().
Ended == pc \in {"done", "aborted"}

\* initEditor has returned: the process is in main's file loading or loop, or
\* in the quit sequence of editorProcessKeypress.
EditorRunning ==
  pc \in {"editorOpen", "refresh", "flush", "processKeypress", "readkey", "seq0", "seq1", "seq2",
          "switch", "quit_clear", "quit_home"}

RestoreAttempts == {"restore", "restore_failed"}

RestoreFailed == \E i \in 1..Len(log) : log[i] = "restore_failed"

\* editorReadKey has just returned to editorProcessKeypress.
KeyReturned == pc = "switch"

\* The reads of the editorReadKey call begin with the bytes of s.
ReadPrefix(s) == Len(rd) >= Len(s) /\ SubSeq(rd, 1, Len(s)) = s

\* A render cycle has just written its frame.
FrameWritten == pc = "processKeypress" /\ cycle.calls > 0

-----------------------------------------------------------------------------
(* C1 *)

\* C1 as stated: on every termination path reached after enableRawMode took
\* the snapshot, the terminal attributes at process end equal E.orig_termios,
\* also when the restore itself fails.
C1_RestoredOnEveryExit ==
  (Ended /\ hook) => term = orig_termios

\* C1 amended: once the snapshot is taken it is the pre-launch attributes; at
\* process end the terminal has the snapshot's attributes whenever the
\* tcsetattr of disableRawMode succeeded, and otherwise it keeps what it had:
\* the snapshot's attributes if raw mode was never installed, raw mode if it was.
C1_RestoredUnlessRestoreFails ==
  /\ hook => orig_termios = Cooked
  /\ (Ended /\ hook /\ ~RestoreFailed) => term = orig_termios
  /\ (Ended /\ hook /\ RestoreFailed) => term \in {orig_termios, RawOf(orig_termios)}

\* A read error in the editor loop ended the process and raw mode was undone.
C1_Witness ==
  /\ pc = "done" /\ hook /\ dieMsg = "read" /\ status = 1
  /\ log = <<"clear", "home", "perror", "restore">>
  /\ term = Cooked

-----------------------------------------------------------------------------
(* C2 *)

\* C2 as stated: whenever die prints its diagnostic, the clear-screen and the
\* home sequence were written and the terminal attributes restored before it,
\* in this order.
C2_RestoreBeforeDiagnostic ==
  \A i \in 1..Len(log) :
    log[i] = "perror" =>
      \E a, b, r \in 1..Len(log) :
        /\ a < b /\ b < r /\ r < i
        /\ log[a] = "clear" /\ log[b] = "home" /\ log[r] = "restore"

\* C2 amended: every die writes clear-screen, then home, then prints the
\* diagnostic; nothing but a restore attempt of the exit hook follows a
\* diagnostic, so the restore comes after it; and a process that ended right
\* after a diagnostic either had no hook registered (tcgetattr failed) or was
\* already inside the hook, whose restore had failed.
C2_DiagnosticBeforeRestore ==
  /\ \A i \in 1..Len(log) :
       log[i] = "perror" =>
         /\ i >= 3 /\ log[i - 2] = "clear" /\ log[i - 1] = "home"
         /\ i < Len(log) => log[i + 1] \in RestoreAttempts
  /\ (pc = "exit" /\ status = 1) => (log # <<>> /\ log[Len(log)] = "perror")
  /\ (Ended /\ log # <<>> /\ log[Len(log)] = "perror") => (~hook \/ RestoreFailed)
  /\ (Ended /\ status = 1) => \E i \in 1..Len(log) : log[i] = "perror"

\* A failed window-size probe: clear, home, diagnostic, then the restore.
C2_Witness ==
  /\ pc = "done" /\ dieMsg = "getWindowSize"
  /\ log = <<"clear", "home", "perror", "restore">>

-----------------------------------------------------------------------------
(* C3 *)

\* C3 as stated: after initEditor and after every key event the cursor is
\* inside the window, whatever geometry getWindowSize returned.
C3_CursorInsideWindow ==
  EditorRunning =>
    /\ 0 <= cx /\ cx < screencols
    /\ 0 <= cy /\ cy < screenrows

-----------------------------------------------------------------------------
(* C4 *)

\* C4 as stated: a geometry getWindowSize returned has positive rows and
\* columns, and the editor loop never runs with another one.
C4_GeometryPositive ==
  EditorRunning => (screenrows > 0 /\ screencols > 0)

-----------------------------------------------------------------------------
(* C5 *)

\* C5 as stated: ESC [ 3 ~ decodes to DEL_KEY.
C5_EscBracket3TildeIsDelete ==
  (KeyReturned /\ rd = <<ESC, LBRACKET, 51, TILDE>>) => c = DEL_KEY

-----------------------------------------------------------------------------
(* C6 *)

\* The table of the claim.
C6_Expected(d) ==
  CASE d = 49 -> HOME_KEY
    [] d = 48 -> DEL_KEY
    [] d = 52 -> END_KEY
    [] d = 53 -> PAGE_UP
    [] d = 54 -> PAGE_DOWN
    [] d = 55 -> HOME_KEY
    [] d = 56 -> END_KEY

\* C6: ESC [ d ~ decodes to Home, Delete, End, PageUp, PageDown, Home, End for
\* d = 1, 0, 4, 5, 6, 7, 8; ESC [ d followed by another byte, or by no byte,
\* decodes to Escape, for every digit d.
C6_DigitTildeTable ==
  \A d \in DIGIT_0..DIGIT_9 :
    (KeyReturned /\ ReadPrefix(<<ESC, LBRACKET, d>>)) =>
      /\ Len(rd) = 4
      /\ (rd[4] = TILDE /\ d \in {48, 49, 52, 53, 54, 55, 56}) => c = C6_Expected(d)
      /\ rd[4] # TILDE => c = ESC

\* ESC [ 5 ~ was decoded to PageUp.
C6_Witness ==
  KeyReturned /\ rd = <<ESC, LBRACKET, 53, TILDE>> /\ c = PAGE_UP

-----------------------------------------------------------------------------
(* C7 *)

\* The tables of the claim: the keys after ESC [ and after ESC O.
C7_Bracket ==
  { <<65, ARROW_UP>>, <<66, ARROW_DOWN>>, <<67, ARROW_RIGHT>>,
    <<68, ARROW_LEFT>>, <<72, HOME_KEY>>, <<70, END_KEY>> }

C7_LetterO == { <<72, HOME_KEY>>, <<70, END_KEY>> }

\* C7: ESC [ x decodes to the arrow, Home or End key of x, ESC O x to Home or
\* End, and the decoder returns after exactly these three bytes.
C7_LetterTable ==
  /\ \A e \in C7_Bracket :
       ReadPrefix(<<ESC, LBRACKET, e[1]>>) =>
         (KeyReturned /\ Len(rd) = 3 /\ c = e[2])
  /\ \A e \in C7_LetterO :
       ReadPrefix(<<ESC, LETTER_O, e[1]>>) =>
         (KeyReturned /\ Len(rd) = 3 /\ c = e[2])

\* ESC [ C was decoded to ArrowRight.
C7_Witness ==
  KeyReturned /\ rd = <<ESC, LBRACKET, 67>> /\ c = ARROW_RIGHT

-----------------------------------------------------------------------------
(* C8 *)

\* C8: a lookahead read that times out is the last read of the call and the
\* call returns Escape; no call makes more than three reads after the escape
\* byte.
C8_BoundedLookahead ==
  /\ \A k \in 2..Len(rd) :
       (rd[1] = ESC /\ rd[k] = RD_TIMEOUT) =>
         (k = Len(rd) /\ KeyReturned /\ c = ESC)
  /\ Len(rd) <= 4
  /\ pc \in {"seq0", "seq1", "seq2"} => (rd[1] = ESC /\ Len(rd) <= 3)

\* ESC [ and then nothing within the timeout: Escape after two lookahead reads.
C8_Witness ==
  KeyReturned /\ rd = <<ESC, LBRACKET, RD_TIMEOUT>> /\ c = ESC

-----------------------------------------------------------------------------
(* C9 *)

\* The sequences the specification names as recognised.
C9_Recognised(s) ==
  \/ Len(s) = 4 /\ s[2] = LBRACKET /\ s[4] = TILDE
       /\ s[3] \in {48, 49, 51, 52, 53, 54, 55, 56}
  \/ Len(s) = 3 /\ s[2] = LBRACKET /\ s[3] \in {65, 66, 67, 68, 72, 70}
  \/ Len(s) = 3 /\ s[2] = LETTER_O /\ s[3] \in {72, 70}

C9_Malformed == Len(rd) >= 1 /\ rd[1] = ESC /\ ~C9_Recognised(rd)

\* C9: reads that begin with ESC and are no recognised sequence decode to
\* Escape; the lookahead never ends in die; and applying that Escape leaves
\* the cursor where it was and the editor in its loop.
C9_MalformedIsEscape ==
  /\ [](KeyReturned /\ C9_Malformed => c = ESC)
  /\ [][(pc \in {"seq0", "seq1", "seq2"}) => (pc' \in {"seq1", "seq2", "switch"})]_vars
  /\ [][(KeyReturned /\ C9_Malformed) =>
          (pc' = "refresh" /\ cx' = cx /\ cy' = cy)]_vars

\* ESC O A, which is no key, came back as Escape.
C9_Witness ==
  KeyReturned /\ rd = <<ESC, LETTER_O, 65>> /\ c = ESC

-----------------------------------------------------------------------------
(* C10 *)

\* C10 as stated: a render cycle makes one write whose length is the sum of
\* the lengths of all fragments passed to abAppend in that cycle.
C10_WriteIsSumOfPassed ==
  FrameWritten => (Len(wr) = 1 /\ Len(wr[1]) = cycle.passed)

\* C10 amended: a render cycle starts from an empty buffer and makes one
\* write, whose length is the sum of the lengths of the fragments abAppend
\* stored: all those passed to it but the ones whose realloc found no memory.
C10_WriteIsSumOfStored ==
  /\ pc = "refresh" => ab = ABUF_INIT
  /\ pc = "flush" => wr = <<>>
  /\ FrameWritten => (Len(wr) = 1 /\ Len(wr[1]) = cycle.stored)
  /\ FrameWritten => ab = ABUF_INIT

\* A frame showing the loaded row was written in one piece.
C10_Witness ==
  /\ FrameWritten /\ numrows = 1 /\ screenrows = 2
  /\ Len(wr) = 1 /\ Len(wr[1]) = cycle.passed /\ cycle.passed > 20

-----------------------------------------------------------------------------
(* C11 *)

\* Where the byte string p occurs in s.
C11_Occurrences(s, p) ==
  {i \in 1..(Len(s) - Len(p) + 1) : SubSeq(s, i, i + Len(p) - 1) = p}

\* s is n lines, each ending in the erase-line sequence.
C11_IsLines(s, n) ==
  /\ Cardinality(C11_Occurrences(s, SEQ_ERASE_LINE)) = n
  /\ IF n = 0 THEN s = <<>>
              ELSE SubSeq(s, Len(s) - Len(SEQ_ERASE_LINE) + 1, Len(s)) = SEQ_ERASE_LINE

\* ESC [ row ; column H for the cursor (cx, cy), both counted from 1.
C11_Reposition ==
  <<ESC, LBRACKET>> \o FormatInt(cy + 1) \o <<SEMICOLON>> \o FormatInt(cx + 1) \o <<72>>

\* f is: hide cursor, home, screenrows lines, reposition, show cursor.
C11_IsFrame(f) ==
  LET head == SEQ_HIDE \o SEQ_HOME
      tail == C11_Reposition \o SEQ_SHOW
  IN  /\ Len(f) >= Len(head) + Len(tail)
      /\ SubSeq(f, 1, Len(head)) = head
      /\ SubSeq(f, Len(f) - Len(tail) + 1, Len(f)) = tail
      /\ C11_IsLines(SubSeq(f, Len(head) + 1, Len(f) - Len(tail)), screenrows)

-----------------------------------------------------------------------------
(* C12 *)

\* Where the rows of frame f end, and where its line breaks are.
C12_RowEnds(f) == C11_Occurrences(f, SEQ_ERASE_LINE)
C12_Breaks(f) == C11_Occurrences(f, SEQ_CRLF)

\* In frame f a line break follows every row but the last one, and there is
\* no other line break.
C12_BreaksBetweenRows(f) ==
  /\ \A i \in C12_RowEnds(f) :
       (i + Len(SEQ_ERASE_LINE) \in C12_Breaks(f))
         <=> (\E j \in C12_RowEnds(f) : j > i)
  /\ \A j \in C12_Breaks(f) : j - Len(SEQ_ERASE_LINE) \in C12_RowEnds(f)

-----------------------------------------------------------------------------
(* C13 *)

\* C13 as stated: when a read brings no byte within the timeout, the
\* key-decode step returns control to the editor loop: the process is never
\* still waiting inside editorReadKey after a read that came back empty.
C13_EmptyReadReturns ==
  pc = "readkey" => idle = 0

\* C13 amended: a read of the first loop of editorReadKey that brings no byte
\* (a timeout, or EAGAIN) leaves the process in that loop, with the editor
\* state as it was, to read again; a render cycle begins only at start-up and
\* after a decoded key was applied, never after an empty read.
C13_EmptyReadRetries ==
  /\ [][(pc = "readkey" /\ idle' > idle) =>
          (pc' = "readkey" /\ UNCHANGED <<editorVars, c, rd, log>>)]_vars
  /\ [][(pc' = "refresh" /\ pc # "refresh") => (pc \in {"editorOpen", "switch"})]_vars
  /\ [](idle > 0 => pc = "readkey")

\* After a frame, two reads in a row came back empty and editorReadKey is
\* still reading.
C13_Witness ==
  pc = "readkey" /\ idle >= 2 /\ term.vmin = 0 /\ screenrows > 0

-----------------------------------------------------------------------------
(* C14 *)

\* The line l without its trailing line-ending bytes.
RECURSIVE C14_Strip(_)
C14_Strip(l) ==
  IF l # <<>> /\ l[Len(l)] \in {LF, CR} THEN C14_Strip(SubSeq(l, 1, Len(l) - 1)) ELSE l

\* editorOpen was called on a file it could open, and is just over.
C14_Opened ==
  /\ argFile.given /\ argFile.openable
  /\ pc \in {"refresh", "crashed"}

\* C14 as stated: for every openable file, whatever the length of its first
\* line (1 and the empty file included), editorOpen returns with exactly one
\* row stored: numrows = 1, row.size the length of the first line without its
\* trailing CR and LF bytes, row.chars those bytes.
C14_OneRowStored ==
  C14_Opened =>
    /\ pc # "crashed"
    /\ numrows = 1
    /\ row.size = Len(C14_Strip(argFile.line))
    /\ row.chars = C14_Strip(argFile.line)

-----------------------------------------------------------------------------
(* C15 *)

\* The command line names a file that fopen cannot open.
C15_Unopenable == argFile.given /\ ~argFile.openable

\* The diagnostic of the failed fopen is on the error stream.
C15_Diagnosed == \E i \in 1..Len(stderr) : stderr[i] = "fopen"

\* main's loop, and all it calls.
C15_InLoop ==
  pc \in {"refresh", "flush", "processKeypress", "readkey", "seq0", "seq1", "seq2", "switch",
          "quit_clear", "quit_home"}

\* C15 as stated: when the file named on the command line cannot be opened,
\* the process never enters the editor loop; it writes a diagnostic and ends
\* with the terminal attributes restored.
C15_FatalAndRestored ==
  C15_Unopenable =>
    /\ ~C15_InLoop
    /\ (pc = "exit" /\ dieMsg = "fopen") => C15_Diagnosed
    /\ (Ended /\ C15_Diagnosed) => term = orig_termios

\* C15 amended: when the file named on the command line cannot be opened,
\* editorOpen calls die("fopen") and the process never enters the editor
\* loop; die writes the diagnostic, and the process ends after disableRawMode
\* ran, with the terminal attributes restored unless that tcsetattr failed.
C15_FatalAndRestoreAttempted ==
  /\ [][(pc = "editorOpen" /\ C15_Unopenable) =>
          (pc' = "die_clear" /\ dieMsg' = "fopen")]_vars
  /\ [](C15_Unopenable => ~C15_InLoop)
  /\ []((C15_Unopenable /\ pc = "exit" /\ dieMsg = "fopen") => C15_Diagnosed)
  /\ []((Ended /\ C15_Diagnosed) =>
          /\ \E i \in 1..Len(log) : log[i] \in RestoreAttempts
          /\ ~RestoreFailed => term = orig_termios)

\* The file could not be opened: the process has ended, diagnostic written,
\* terminal as it was at start.
C15_Witness ==
  /\ C15_Unopenable /\ pc = "done" /\ C15_Diagnosed
  /\ term = Cooked /\ status = 1

-----------------------------------------------------------------------------
(* C16 *)

\* Ctrl-q was the key applied last, and no die followed it.
C16_QuitCaused == c = CTRL_KEY(LETTER_q) /\ stderr = <<>>

\* C16 as stated: the process ends with exit status 0 exactly when Ctrl-q
\* caused the termination, and with exit status 1 whenever a die did, every
\* die having written its diagnostic on the error stream.
C16_ExitStatus ==
  Ended =>
    /\ pc = "done"
    /\ status = 0 <=> C16_QuitCaused
    /\ stderr # <<>> => status = 1
    /\ Cardinality({i \in 1..Len(log) : log[i] = "perror"}) = Len(stderr)

-----------------------------------------------------------------------------
(* C17 *)

\* The write() calls on stdout that the log records, as the bytes written.
StdoutWrites ==
  LET w == SelectSeq(log, LAMBDA e : e \in {"clear", "home"})
  IN  [i \in 1..Len(w) |-> IF w[i] = "clear" THEN SEQ_CLEAR ELSE SEQ_HOME]

\* Ctrl-q was decoded and editorProcessKeypress has acted on it.
C17_Quit == c = CTRL_KEY(LETTER_q) /\ pc # "switch"

\* C17 as stated: after Ctrl-q the process writes the clear-screen-and-home
\* sequence, restores the terminal, then ends with status 0; its final write
\* on stdout contains the clear-screen-and-home sequence; no render cycle
\* follows Ctrl-q.
C17_QuitAsStated ==
  /\ C17_Quit => pc \notin {"refresh", "flush", "processKeypress"}
  /\ (C17_Quit /\ Ended) =>
       /\ pc = "done" /\ status = 0
       /\ log = <<"clear", "home", "restore">>
       /\ term = orig_termios
       /\ C11_Occurrences(StdoutWrites[Len(StdoutWrites)], SEQ_CLEAR \o SEQ_HOME) # {}

\* C17 amended: on Ctrl-q the process writes the clear-screen sequence, then
\* the home sequence, as two writes, then calls exit(0), which runs
\* disableRawMode; when its tcsetattr succeeds the process ends with status 0
\* and the terminal restored. The last two writes on stdout are the
\* clear-screen sequence and the home sequence, the final one being the home
\* sequence alone; the process never returns to the loop after Ctrl-q.
C17_QuitWritesThenExits ==
  /\ [][(pc = "switch" /\ c = CTRL_KEY(LETTER_q)) => (pc' = "quit_clear")]_vars
  /\ [](C17_Quit => pc \in {"quit_clear", "quit_home", "exit", "disableRawMode",
                            "die_clear", "die_home", "die_perror", "done", "aborted"})
  /\ []((C17_Quit /\ pc = "exit" /\ ~inExit) =>
          (log = <<"clear", "home">> /\ status = 0))
  /\ []((C17_Quit /\ Ended /\ ~RestoreFailed) =>
          /\ pc = "done" /\ status = 0
          /\ log = <<"clear", "home", "restore">>
          /\ term = orig_termios)
  /\ []((C17_Quit /\ Ended) =>
          LET n == Len(StdoutWrites)
          IN  n >= 2 /\ StdoutWrites[n - 1] = SEQ_CLEAR /\ StdoutWrites[n] = SEQ_HOME)

\* Ctrl-q ended the process: screen cleared, terminal restored, status 0.
C17_Witness ==
  /\ C17_Quit /\ pc = "done" /\ status = 0
  /\ log = <<"clear", "home", "restore">> /\ term = Cooked

-----------------------------------------------------------------------------
(* C18 *)

\* The cursor is inside the window.
C18_InBounds == cx >= 0 /\ cx < screencols /\ cy >= 0 /\ cy < screenrows

\* The row reached from row y by n ArrowUp moves, each stopping at row 0.
RECURSIVE C18_Up(_, _)
C18_Up(y, n) == IF n = 0 THEN y ELSE C18_Up(IF y = 0 THEN 0 ELSE y - 1, n - 1)

\* The row reached from row y by n ArrowDown moves, each stopping at the
\* last row.
RECURSIVE C18_Down(_, _)
C18_Down(y, n) ==
  IF n = 0 THEN y ELSE C18_Down(IF y = screenrows - 1 THEN y ELSE y + 1, n - 1)

\* C18: applied to a cursor inside the window, PageUp leaves it where
\* screenrows clamped ArrowUp moves do, which is row 0, and PageDown where
\* screenrows clamped ArrowDown moves do, which is row screenrows - 1; the
\* column is unchanged and the editor goes on to the next render cycle.
C18_PageMoves ==
  /\ [][(pc = "switch" /\ c = PAGE_UP /\ C18_InBounds) =>
          (/\ cy' = C18_Up(cy, screenrows) /\ cy' = 0
           /\ cx' = cx /\ pc' = "refresh")]_vars
  /\ [][(pc = "switch" /\ c = PAGE_DOWN /\ C18_InBounds) =>
          (/\ cy' = C18_Down(cy, screenrows) /\ cy' = screenrows - 1
           /\ cx' = cx /\ pc' = "refresh")]_vars

\* PageDown was applied in a window of three rows: the cursor is on the last
\* row, in the column it was in.
C18_Witness ==
  /\ pc = "refresh" /\ c = PAGE_DOWN
  /\ screenrows = 3 /\ cy = 2 /\ cx = 1

-----------------------------------------------------------------------------
(* C19 *)

\* getWindowSize found the ioctl failed or reporting zero columns.
C19_QueryUnusable == probe.io.ret = -1 \/ probe.io.ws_col = 0

\* ESC [ r ; k R, the numbers in decimal.
C19_Report(r, k) ==
  <<ESC, LBRACKET>> \o FormatInt(r) \o <<SEMICOLON>> \o FormatInt(k) \o <<LETTER_R>>

\* C19: getWindowSize writes or reads fallback bytes exactly when the ioctl
\* fails or reports zero columns; then, the two sequences written, a reply
\* ESC [ r ; c R gives screenrows = r and screencols = c (ESC [ 24 ; 80 R
\* gives 24 and 80); otherwise the size is the one the ioctl reported and
\* nothing is written or read.
C19_FallbackExactlyWhenNeeded ==
  probe.called =>
    /\ (wr # <<>> \/ probe.reads > 0) <=> C19_QueryUnusable
    /\ C19_QueryUnusable => wr[1] = SEQ_FAR
    /\ \A r \in WideRows, k \in WideCols :
         (C19_QueryUnusable /\ probe.moved /\ probe.sent
            /\ probe.reply = C19_Report(r, k))
           => /\ probe.ret = 0
              /\ screenrows = r /\ screencols = k
              /\ wr = <<SEQ_FAR, SEQ_DSR>>
              /\ pc = "editorOpen"
    /\ (C19_QueryUnusable /\ probe.moved /\ probe.sent
          /\ probe.reply = <<27, 91, 50, 52, 59, 56, 48, 82>>)
         => (screenrows = 24 /\ screencols = 80)
    /\ ~C19_QueryUnusable =>
         /\ wr = <<>> /\ probe.reads = 0 /\ probe.ret = 0
         /\ screenrows = probe.io.ws_row /\ screencols = probe.io.ws_col

\* The ioctl reported zero columns and the terminal answered ESC [ 24 ; 80 R.
C19_Witness ==
  /\ probe.called /\ probe.io.ret = 0 /\ probe.io.ws_col = 0
  /\ probe.reply = <<27, 91, 50, 52, 59, 56, 48, 82>>
  /\ screenrows = 24 /\ screencols = 80 /\ pc = "editorOpen"

-----------------------------------------------------------------------------
(* C20 *)

\* s, from position i on, is one digit or more.
C20_DigitsFrom(s, i, j) ==
  i <= j /\ j <= Len(s) /\ \A k \in i..j : s[k] >= DIGIT_0 /\ s[k] <= DIGIT_9

\* After ESC [ the reply holds two integers with a semicolon between them.
C20_TwoIntegers(s) ==
  \E j \in 3..Len(s) :
    /\ C20_DigitsFrom(s, 3, j)
    /\ Len(s) >= j + 2 /\ s[j + 1] = SEMICOLON
    /\ C20_DigitsFrom(s, j + 2, j + 2)

\* No reply, or a reply without the ESC [ prefix or without two integers.
C20_Malformed(s) ==
  \/ Len(s) < 2
  \/ s[1] # ESC \/ s[2] # LBRACKET
  \/ ~C20_TwoIntegers(s)

\* The ioctl was unusable and the fallback failed too.
C20_ProbeFailed ==
  /\ probe.called
  /\ C19_QueryUnusable
  /\ ~probe.moved \/ ~probe.sent \/ C20_Malformed(probe.reply)

\* C20 as stated: when the ioctl fails or reports zero columns and the
\* fallback fails as well, the process is in die or in exit from then on,
\* never in a render cycle or a key decode, and it ends with exit status 1.
C20_FatalWithStatusOne ==
  C20_ProbeFailed =>
    /\ probe.ret = -1
    /\ pc \in {"die_clear", "die_home", "die_perror", "exit", "disableRawMode",
               "done", "aborted"}
    /\ Ended => (pc = "done" /\ status = 1 /\ stderr[1] = "getWindowSize")

-----------------------------------------------------------------------------
(* C21 *)

\* How many times disableRawMode called tcsetattr to restore the snapshot.
C21_Restores == Cardinality({i \in 1..Len(log) : log[i] \in RestoreAttempts})

\* C21 as stated: on every termination path (quit, fatal error before or
\* after raw mode is installed, failure of the restore) the restore of the
\* snapshot is performed exactly once, never zero times and never twice.
C21_RestoredExactlyOnce ==
  Ended => C21_Restores = 1

\* C21 amended: the restore is never performed twice; a process that ends
\* through exit() after tcgetattr took the snapshot performed it exactly
\* once, also when the restore itself failed; a process whose tcgetattr
\* failed has no snapshot and performed it zero times, and so did a process
\* killed inside editorOpen.
C21_RestoredOnceIfSnapshot ==
  /\ C21_Restores <= 1
  /\ hook <=> orig_termios # ZeroTermios
  /\ Ended => C21_Restores = (IF hook THEN 1 ELSE 0)
  /\ pc = "crashed" => C21_Restores = 0

\* The restore itself failed and the process ended: it was tried once.
C21_Witness ==
  Ended /\ hook /\ RestoreFailed /\ C21_Restores = 1

-----------------------------------------------------------------------------
(* C22 *)

\* The process is in main's loop: rendering, reading a key or applying it.
C22_Running ==
  pc \in {"refresh", "flush", "processKeypress", "readkey", "seq0", "seq1", "seq2",
          "switch"}

\* C22: main's loop alternates render, decode, apply. The decode of a key is
\* entered only from a frame just written, a frame is written only by a
\* render begun at start-up or after a key was applied, and each render makes
\* one write; the first step after initialisation is a render; applying a
\* key other than Ctrl-q leads to the next render; and the loop is left only
\* by Ctrl-q or by die.
C22_LoopAlternates ==
  /\ [][(pc' = "readkey" /\ pc # "readkey") => (pc = "processKeypress")]_vars
  /\ [][(pc' = "processKeypress") => (pc = "flush" /\ Len(wr') = 1)]_vars
  /\ [][(pc' = "flush") => (pc = "refresh")]_vars
  /\ [][(pc' = "refresh") => (pc \in {"editorOpen", "switch"})]_vars
  /\ [][(pc = "editorOpen" /\ pc' \notin {"die_clear", "crashed"}) =>
          (pc' = "refresh")]_vars
  /\ [][(pc' = "switch") => (pc \in {"readkey", "seq0", "seq1", "seq2"})]_vars
  /\ [][(pc = "switch" /\ c # CTRL_KEY(LETTER_q)) =>
          (pc' = "refresh" /\ UNCHANGED <<log, status, term>>)]_vars
  /\ [][(C22_Running /\ ~C22_Running') =>
          \/ pc = "switch" /\ c = CTRL_KEY(LETTER_q) /\ pc' = "quit_clear"
          \/ pc' = "die_clear"]_vars

\* A key moved the cursor down and the frame that follows has been written.
C22_Witness ==
  FrameWritten /\ cy = 1 /\ Len(wr) = 1 /\ rd = <<>>

-----------------------------------------------------------------------------
(* C23 *)

\* lsh_execute has just returned to lsh_loop.
C23_Returned == lsh_pc = "loop_test"

\* C23: lsh_loop prompts again whenever lsh_execute returned non-zero and
\* returns as soon as it returned 0, which is the only way it returns;
\* lsh_execute returns 0 exactly for the builtin exit, and 1 for an empty
\* command, for cd (whether it has an argument and whether chdir succeeds),
\* for help, and for every other command, whatever fork, execvp and waitpid
\* did.
C23_LoopWhileNonZero ==
  /\ [][(C23_Returned /\ lsh_status # 0) => (lsh_pc' = "prompt")]_vars
  /\ [][(C23_Returned /\ lsh_status = 0) => (lsh_pc' = "returned")]_vars
  /\ [][(lsh_pc' = "returned") => (C23_Returned /\ lsh_status = 0)]_vars
  /\ [][(lsh_pc' = "read_line") =>
          (lsh_pc = "prompt" /\ lsh_out' = <<"> ">>)]_vars
  /\ [][(lsh_pc' = "execute") => (lsh_pc = "read_line")]_vars
  /\ [](C23_Returned =>
          /\ lsh_status \in {0, 1}
          /\ lsh_status = 0 <=> (args # <<>> /\ args[1] = "exit"))

\* A cd whose chdir failed returned 1 and the shell prompted again.
C23_Witness ==
  /\ lsh_pc = "prompt" /\ lsh_n = 1 /\ lsh_status = 1
  /\ args = <<"cd", "dir">> /\ cwd = "/" /\ lsh_out = <<"> ", "perror">>

-----------------------------------------------------------------------------
(* C24 *)

\* The bytes the current call of editorReadKey has taken from the input.
C24_Consumed == Cardinality({i \in 1..Len(rd) : IsByte(rd[i])})

\* Ctrl-q is among the lookahead bytes of the current call.
C24_QuitByteInLookahead ==
  /\ Len(rd) >= 2
  /\ rd[1] = ESC
  /\ \E i \in 2..Len(rd) : rd[i] = CTRL_KEY(LETTER_q)

\* C24: a call of editorReadKey that returns has taken between 1 and 4 bytes
\* and no call takes more than 4; a call starts with nothing kept from the
\* call before, and a key that is a plain byte is the one byte this call
\* read; a sequence with Ctrl-q in its lookahead decodes to Escape, whose
\* processing goes on to the next frame; and the quit is entered only when
\* Ctrl-q was the first and only byte the call read.
C24_LookaheadDiscarded ==
  /\ [](KeyReturned => (C24_Consumed >= 1 /\ C24_Consumed <= 4))
  /\ [](C24_Consumed <= 4)
  /\ [](pc \in {"refresh", "flush", "processKeypress", "readkey"} => rd = <<>>)
  /\ [](KeyReturned /\ c < ARROW_LEFT /\ c # ESC => rd = <<c>>)
  /\ [](KeyReturned /\ C24_QuitByteInLookahead => c = ESC)
  /\ [][(KeyReturned /\ C24_QuitByteInLookahead) =>
          (pc' = "refresh" /\ rd' = <<>> /\ status' = status /\ log' = log)]_vars
  /\ [][(pc' = "quit_clear" /\ pc # "quit_clear") =>
          (KeyReturned /\ rd = <<CTRL_KEY(LETTER_q)>>)]_vars

\* ESC, Ctrl-q and one more byte were taken by one call, which returned
\* Escape.
C24_Witness ==
  KeyReturned /\ rd = <<ESC, CTRL_KEY(LETTER_q), LETTER_q>> /\ c = ESC

-----------------------------------------------------------------------------
(* C25 *)

\* editorProcessKeypress is running: from its call to the end of its switch.
C25_InKeyEvent == pc \in {"processKeypress", "readkey", "seq0", "seq1", "seq2", "switch"}

C25_Horizontal == {ARROW_LEFT, ARROW_RIGHT, HOME_KEY, END_KEY}

C25_Vertical == {ARROW_UP, ARROW_DOWN, PAGE_UP, PAGE_DOWN}

\* C25: the switch of editorProcessKeypress leaves cy alone on ArrowLeft,
\* ArrowRight, Home (cx becomes 0) and End (cx becomes screencols - 1),
\* leaves cx alone on ArrowUp, ArrowDown, PageUp and PageDown, and leaves
\* both alone on every other key; reading the key moves nothing; and
\* nothing in editorProcessKeypress changes screenrows, screencols, numrows
\* or the row.
C25_KeysChangeOneAxis ==
  /\ [][(KeyReturned /\ c \in C25_Horizontal) =>
          (/\ cy' = cy
           /\ c = HOME_KEY => cx' = 0
           /\ c = END_KEY => cx' = screencols - 1)]_vars
  /\ [][(KeyReturned /\ c \in C25_Vertical) => (cx' = cx)]_vars
  /\ [][(KeyReturned /\ c \notin C25_Horizontal \cup C25_Vertical) =>
          (cx' = cx /\ cy' = cy)]_vars
  /\ [][(C25_InKeyEvent /\ ~KeyReturned) => (cx' = cx /\ cy' = cy)]_vars
  /\ [][C25_InKeyEvent =>
          (/\ screenrows' = screenrows /\ screencols' = screencols
           /\ numrows' = numrows /\ row' = row)]_vars

\* End was applied on the second row of a window two columns wide, a row
\* being loaded: the cursor is in the last column of the same row.
C25_Witness ==
  /\ pc = "refresh" /\ c = END_KEY
  /\ screencols = 2 /\ cx = 1 /\ cy = 1 /\ numrows = 1

-----------------------------------------------------------------------------
(* C26 *)

\* die("read") has written its diagnostic.
C26_ReadFatal == \E i \in 1..Len(stderr) : stderr[i] = "read"

\* The last lookahead read of the call did not return one byte.
C26_LookaheadFailed == Len(rd) >= 2 /\ rd[1] = ESC /\ ~IsByte(rd[Len(rd)])

\* C26 as stated: after a read error on the first byte of a key the process
\* ends with exit status 1 and the terminal restored; a lookahead read that
\* does not return one byte makes the key Escape.
C26_FatalFirstByteAsStated ==
  /\ (Ended /\ C26_ReadFatal) =>
       (pc = "done" /\ status = 1 /\ term = orig_termios)
  /\ (KeyReturned /\ C26_LookaheadFailed) => c = ESC

\* C26 amended: die("read") is called only from the loop waiting for the
\* first byte of a key, never from the lookahead; the process then ends
\* after disableRawMode ran, with exit status 1 and the terminal restored
\* when its tcsetattr succeeded, and with the terminal still raw when it
\* failed, the exit status being 1 if the process ends normally at all; a
\* lookahead read that does not return one byte, an error included, makes
\* the key Escape, and the editor goes on to the next frame.
C26_FatalFirstByteOnly ==
  /\ [][(pc' = "die_clear" /\ dieMsg' = "read") =>
          (pc = "readkey" /\ rd = <<>>)]_vars
  /\ [][(pc = "readkey" /\ pc' = "die_clear") => (dieMsg' = "read")]_vars
  /\ [][(pc \in {"seq0", "seq1", "seq2"}) => (pc' \in {"seq1", "seq2", "switch"})]_vars
  /\ []((Ended /\ C26_ReadFatal) =>
          /\ \E i \in 1..Len(log) : log[i] \in RestoreAttempts
          /\ ~RestoreFailed => (pc = "done" /\ status = 1 /\ term = orig_termios)
          /\ RestoreFailed => term = RawOf(orig_termios)
          /\ pc = "done" => status = 1)
  /\ []((KeyReturned /\ C26_LookaheadFailed) => c = ESC)
  /\ [][(KeyReturned /\ C26_LookaheadFailed) =>
          (pc' = "refresh" /\ status' = status /\ stderr' = stderr /\ log' = log)]_vars

\* A read error on the first byte ended the process, the restore failed too:
\* status 1, the terminal still raw.
C26_Witness ==
  /\ pc = "done" /\ C26_ReadFatal /\ RestoreFailed
  /\ status = 1 /\ term = RawOf(orig_termios)

====
